---- MODULE Spec2Model ----
(***************************************************************************)
(* Atom feed deserialisation (src/feed.rs): Feed::read_from and            *)
(* Feed::from_xml driving a quick_xml pull cursor.                         *)
(*                                                                         *)
(* The cursor delivers one event per read_event call; the events delivered *)
(* so far are kept in doc.  The parser is a sequential program: pc names   *)
(* the loop whose read_event call comes next (the entry point's loop, the  *)
(* Feed builder's loop, or the loop of the callee a Feed arm has called).  *)
(***************************************************************************)
EXTENDS Integers, Sequences, FiniteSets, TLC

\* ---------------------------------------------------------------- bounds
\* Elements (start tags) per document, the root included.
MaxElems == 4
\* Text / comment events per document.
MaxNoise == 1
\* Distinct element names per document, the root's included.
MaxTags == 3

\* ------------------------------------------------------------ vocabulary
RootTag == "feed"
TextTags == {"id", "title", "updated"}
OptTextTags == {"icon", "logo", "rights", "subtitle"}
SeqTags == {"author", "category", "contributor", "link", "entry"}
ChildTags == SeqTags \cup {"generator"}
FeedTags == TextTags \cup OptTextTags \cup ChildTags
\* Names the Feed builder has no arm for: an extension element, the root's
\* own name nested, and the root's name in another case.
OtherTags == {"foo", "feed", "Feed"}
Tags == FeedTags \cup OtherTags
Texts == {"a", "b"}
\* Failures of the tokenizer itself (quick_xml::Error).
XmlErrors == {"Syntax"}

Ev(k, n) == [k |-> k, n |-> n]
EofEv == Ev("Eof", "")

\* ----------------------------------------------------------- error values
ErrEof == [kind |-> "Eof", cause |-> ""]
ErrInvalidStartTag == [kind |-> "InvalidStartTag", cause |-> ""]
\* impl From<quick_xml::Error> for Error, applied by `?`.
ErrXml(c) == [kind |-> "Xml", cause |-> c]

None == <<>>
Some(x) == <<x>>
UnwrapOrDefault(o) == IF o = None THEN <<>> ELSE o[1]

Pending == [ok |-> <<>>, err |-> <<>>]
Ok(f) == [ok |-> <<f>>, err |-> <<>>]
Err(e) == [ok |-> <<>>, err |-> <<e>>]

\* Mutant of FeedDefault: the optional text fields start as empty strings.
FeedDefaultSentinel ==
  [title |-> <<>>, id |-> <<>>, updated |-> <<>>,
   authors |-> <<>>, categories |-> <<>>, contributors |-> <<>>,
   generator |-> None, icon |-> Some(<<>>), links |-> <<>>,
   logo |-> Some(<<>>), rights |-> Some(<<>>), subtitle |-> Some(<<>>),
   entries |-> <<>>]

\* Feed::default(): empty strings, empty vectors, None.
FeedDefault ==
  [title |-> <<>>, id |-> <<>>, updated |-> <<>>,
   authors |-> <<>>, categories |-> <<>>, contributors |-> <<>>,
   generator |-> None, icon |-> None, links |-> <<>>,
   logo |-> None, rights |-> None, subtitle |-> None,
   entries |-> <<>>]

VARIABLES doc, open, pc, arm, depth, acc, feed, result, raised

vars == <<doc, open, pc, arm, depth, acc, feed, result, raised>>

Parser ==
  [pc |-> pc, arm |-> arm, depth |-> depth, acc |-> acc, feed |-> feed,
   result |-> result, raised |-> raised]

\* ------------------------------------------------------------ the cursor
Last(q) == q[Len(q)]
Front(q) == SubSeq(q, 1, Len(q) - 1)
Count(q, kinds) == Cardinality({i \in 1..Len(q) : q[i].k \in kinds})
Range(q) == {q[i] : i \in 1..Len(q)}
NamesIn(q) == {q[i].n : i \in {j \in 1..Len(q) : q[j].k = "Start"}}

\* Reader::read_event under trim_text(true).expand_empty_elements(true) and
\* the default check_end_names: an element start, the end of the innermost
\* open element (any other end is reported as an error), a non-empty text
\* run (two runs are never adjacent), a comment / declaration / processing
\* instruction, end of input, or a tokenizer error.  No loop looks into a
\* text run, so the runs are named in order of first appearance: "b" only
\* after "a".
Yieldable ==
  {Ev("Start", t) : t \in {u \in Tags :
      /\ Count(doc, {"Start"}) < MaxElems
      /\ u \in NamesIn(doc) \/ Cardinality(NamesIn(doc)) < MaxTags}}
  \cup (IF open /= <<>> THEN {Ev("End", Last(open))} ELSE {})
  \cup {Ev("Text", x) : x \in {y \in Texts :
      /\ Count(doc, {"Text", "Other"}) < MaxNoise
      /\ doc = <<>> \/ Last(doc).k /= "Text"
      /\ y = "a" \/ Ev("Text", "a") \in Range(doc)}}
  \cup {Ev("Other", "") : x \in {y \in {doc} :
      Count(doc, {"Text", "Other"}) < MaxNoise}}
  \cup {EofEv}
  \cup {Ev("Err", c) : c \in XmlErrors}

Opened(o, ev) ==
  CASE ev.k = "Start" -> Append(o, ev.n)
    [] ev.k = "End" -> Front(o)
    [] OTHER -> o

\* ----------------------------------------------------- error propagation
\* Mutant of FromXmlTry: a nested failure is reported as truncation.
FromXmlTryAsEof(e) == ErrEof

\* `?` on a nested resolver's result inside Feed::from_xml.
FromXmlTry(e) == e
\* `?` on Feed::from_xml's result inside Feed::read_from.
ReadFromTry(e) == e

\* An error detected in read_from's own loop.
FailReadFrom(s, e) ==
  [s EXCEPT !.pc = "done", !.result = Err(e), !.raised = <<e>>]
\* An error detected in from_xml's own loop.
FailFromXml(s, e) ==
  [s EXCEPT !.pc = "done", !.result = Err(ReadFromTry(e)), !.raised = <<e>>]
\* An error detected in a resolver called from a Feed arm.
FailNested(s, e) ==
  [s EXCEPT !.pc = "done", !.result = Err(ReadFromTry(FromXmlTry(e))),
            !.raised = <<e>>]

\* Mutant of ReadFrom: the root's name is compared ignoring case.
ReadFromIgnoringCase(s, ev) ==
  CASE ev.k = "Err" -> FailReadFrom(s, ErrXml(ev.n))
    [] ev.k = "Start" ->
         IF ev.n \in {"feed", "Feed"}
         THEN [s EXCEPT !.pc = "from_xml", !.feed = <<FeedDefault>>]
         ELSE FailReadFrom(s, ErrInvalidStartTag)
    [] ev.k = "Eof" -> FailReadFrom(s, ErrEof)
    [] OTHER -> s

\* Mutant of ReadFrom: input without a root yields an empty Feed.
ReadFromEmptyIsDefault(s, ev) ==
  CASE ev.k = "Err" -> FailReadFrom(s, ErrXml(ev.n))
    [] ev.k = "Start" ->
         IF ev.n = "feed"
         THEN [s EXCEPT !.pc = "from_xml", !.feed = <<FeedDefault>>]
         ELSE FailReadFrom(s, ErrInvalidStartTag)
    [] ev.k = "Eof" -> [s EXCEPT !.pc = "done", !.result = Ok(FeedDefault)]
    [] OTHER -> s

\* -------------------------------------------------------- Feed::read_from
ReadFrom(s, ev) ==
  CASE ev.k = "Err" -> FailReadFrom(s, ErrXml(ev.n))
    [] ev.k = "Start" ->
         IF ev.n = "feed"
         THEN [s EXCEPT !.pc = "from_xml", !.feed = <<FeedDefault>>]
         ELSE FailReadFrom(s, ErrInvalidStartTag)
    [] ev.k = "Eof" -> FailReadFrom(s, ErrEof)
    [] OTHER -> s

\* --------------------------------------------------------- Feed::from_xml
\* Mutant of Callee: an unrecognized element is not skipped, the loop just
\* goes on to the next event.
CalleeNoSkip(n) ==
  CASE n = "id" -> "atom_text"
    [] n = "title" -> "atom_text"
    [] n = "updated" -> "atom_text"
    [] n = "author" -> "Person"
    [] n = "category" -> "Category"
    [] n = "contributor" -> "Person"
    [] n = "generator" -> "Generator"
    [] n = "icon" -> "atom_text"
    [] n = "link" -> "Link"
    [] n = "logo" -> "atom_text"
    [] n = "rights" -> "atom_text"
    [] n = "subtitle" -> "atom_text"
    [] n = "entry" -> "Entry"
    [] OTHER -> "from_xml"

\* The resolver each arm of the match on element.name() calls.
Callee(n) ==
  CASE n = "id" -> "atom_text"
    [] n = "title" -> "atom_text"
    [] n = "updated" -> "atom_text"
    [] n = "author" -> "Person"
    [] n = "category" -> "Category"
    [] n = "contributor" -> "Person"
    [] n = "generator" -> "Generator"
    [] n = "icon" -> "atom_text"
    [] n = "link" -> "Link"
    [] n = "logo" -> "atom_text"
    [] n = "rights" -> "atom_text"
    [] n = "subtitle" -> "atom_text"
    [] n = "entry" -> "Entry"
    [] OTHER -> "read_to_end"

\* Mutant of Overwrite: the first occurrence wins.
OverwriteKeepFirst(old, new) == IF old = <<>> THEN new ELSE old
\* Mutant of Overwrite: an empty value is not stored.
OverwriteSkipEmpty(old, new) ==
  IF new \in {<<>>, Some(<<>>)} THEN old ELSE new
\* Mutant of Push: the newest entity goes first.
PushFront(xs, x) == <<x>> \o xs

\* `feed.x = value`: a singular field takes the new value.
Overwrite(old, new) == new
\* `feed.xs.push(value)`.
Push(xs, x) == Append(xs, x)

\* What each arm does with the value v its resolver returned.
Assign(f, n, v) ==
  CASE n = "id" -> [f EXCEPT !.id = Overwrite(@, UnwrapOrDefault(v))]
    [] n = "title" -> [f EXCEPT !.title = Overwrite(@, UnwrapOrDefault(v))]
    [] n = "updated" -> [f EXCEPT !.updated = Overwrite(@, UnwrapOrDefault(v))]
    [] n = "author" -> [f EXCEPT !.authors = Push(@, v)]
    [] n = "category" -> [f EXCEPT !.categories = Push(@, v)]
    [] n = "contributor" -> [f EXCEPT !.contributors = Push(@, v)]
    [] n = "generator" -> [f EXCEPT !.generator = Overwrite(@, Some(v))]
    [] n = "icon" -> [f EXCEPT !.icon = Overwrite(@, v)]
    [] n = "link" -> [f EXCEPT !.links = Push(@, v)]
    [] n = "logo" -> [f EXCEPT !.logo = Overwrite(@, v)]
    [] n = "rights" -> [f EXCEPT !.rights = Overwrite(@, v)]
    [] n = "subtitle" -> [f EXCEPT !.subtitle = Overwrite(@, v)]
    [] n = "entry" -> [f EXCEPT !.entries = Push(@, v)]
    [] OTHER -> f

\* Control is back in from_xml's loop with the arm's value v.
Returned(s, v) ==
  [s EXCEPT !.pc = "from_xml", !.feed = <<Assign(s.feed[1], s.arm, v)>>,
            !.arm = "", !.depth = 0, !.acc = <<>>]

FromXml(s, ev) ==
  CASE ev.k = "Err" -> FailFromXml(s, ErrXml(ev.n))
    [] ev.k = "Start" ->
         [s EXCEPT !.pc = Callee(ev.n), !.arm = ev.n, !.depth = 0,
                   !.acc = <<>>]
    [] ev.k = "End" -> [s EXCEPT !.pc = "done", !.result = Ok(s.feed[1])]
    [] ev.k = "Eof" -> FailFromXml(s, ErrEof)
    [] OTHER -> s

\* Mutant of ReadToEnd: a single-level skip, which stops at the first end of
\* the skipped name without counting nested starts of that name.
ReadToEndShallow(s, ev) ==
  CASE ev.k = "Err" -> FailNested(s, ErrXml(ev.n))
    [] ev.k = "End" /\ ev.n = s.arm -> Returned(s, None)
    [] ev.k = "Eof" -> FailNested(s, ErrXml("UnexpectedEof"))
    [] OTHER -> s

\* --------------------------------------------------- Reader::read_to_end
\* quick_xml: skip to the end named s.arm, counting nested starts of the
\* same name; end of input is the reader's own error.
ReadToEnd(s, ev) ==
  CASE ev.k = "Err" -> FailNested(s, ErrXml(ev.n))
    [] ev.k = "End" /\ ev.n = s.arm ->
         IF s.depth = 0 THEN Returned(s, None)
         ELSE [s EXCEPT !.depth = @ - 1]
    [] ev.k = "Start" /\ ev.n = s.arm -> [s EXCEPT !.depth = @ + 1]
    [] ev.k = "Eof" -> FailNested(s, ErrXml("UnexpectedEof"))
    [] OTHER -> s

\* ------------------------------------------------------- util::atom_text
\* The text resolver: the text runs directly inside the leaf, up to its
\* matching end; a present element always resolves to a string.
AtomText(s, ev) ==
  CASE ev.k = "Err" -> FailNested(s, ErrXml(ev.n))
    [] ev.k = "Start" -> [s EXCEPT !.depth = @ + 1]
    [] ev.k = "End" ->
         IF s.depth = 0 THEN Returned(s, Some(s.acc))
         ELSE [s EXCEPT !.depth = @ - 1]
    [] ev.k = "Text" ->
         IF s.depth = 0 THEN [s EXCEPT !.acc = Append(@, ev.n)] ELSE s
    [] ev.k = "Eof" -> FailNested(s, ErrEof)
    [] OTHER -> s

\* ------------------------- Person / Category / Generator / Link / Entry
\* The nested builders: each consumes its own subtree up to the matching
\* end and returns the entity built from it.
Entity(kind, body) == [kind |-> kind, body |-> body]

ChildFromXml(s, ev) ==
  CASE ev.k = "Err" -> FailNested(s, ErrXml(ev.n))
    [] ev.k = "Start" -> [s EXCEPT !.depth = @ + 1]
    [] ev.k = "End" ->
         IF s.depth = 0 THEN Returned(s, Entity(s.pc, s.acc))
         ELSE [s EXCEPT !.depth = @ - 1]
    [] ev.k = "Text" -> [s EXCEPT !.acc = Append(@, ev.n)]
    [] ev.k = "Eof" -> FailNested(s, ErrEof)
    [] OTHER -> s

Builders == {"Person", "Category", "Generator", "Link", "Entry"}

\* One read_event call and the handling of its event by the active loop.
Step(s, ev) ==
  CASE s.pc = "read_from" -> ReadFrom(s, ev)
    [] s.pc = "from_xml" -> FromXml(s, ev)
    [] s.pc = "atom_text" -> AtomText(s, ev)
    [] s.pc = "read_to_end" -> ReadToEnd(s, ev)
    [] s.pc \in Builders -> ChildFromXml(s, ev)
    [] OTHER -> s

InitParser ==
  [pc |-> "read_from", arm |-> "", depth |-> 0, acc |-> <<>>, feed |-> <<>>,
   result |-> Pending, raised |-> <<>>]

\* ------------------------------------------------------------ the machine
Init ==
  /\ doc = <<>>
  /\ open = <<>>
  /\ pc = InitParser.pc
  /\ arm = InitParser.arm
  /\ depth = InitParser.depth
  /\ acc = InitParser.acc
  /\ feed = InitParser.feed
  /\ result = InitParser.result
  /\ raised = InitParser.raised

\* reader.read_event delivers ev and the active loop handles it.
Deliver(ev) ==
  /\ doc' = Append(doc, ev)
  /\ open' = Opened(open, ev)
  /\ LET s == Step(Parser, ev) IN
       /\ pc' = s.pc
       /\ arm' = s.arm
       /\ depth' = s.depth
       /\ acc' = s.acc
       /\ feed' = s.feed
       /\ result' = s.result
       /\ raised' = s.raised

\* Feed::read_from, one action per arm of its match.
ReadFromStart ==
  /\ pc = "read_from"
  /\ \E ev \in Yieldable : ev.k = "Start" /\ Deliver(ev)

ReadFromEof ==
  /\ pc = "read_from"
  /\ \E ev \in Yieldable : ev.k = "Eof" /\ Deliver(ev)

ReadFromIgnore ==
  /\ pc = "read_from"
  /\ \E ev \in Yieldable : ev.k \in {"Text", "Other"} /\ Deliver(ev)

ReadFromError ==
  /\ pc = "read_from"
  /\ \E ev \in Yieldable : ev.k = "Err" /\ Deliver(ev)

\* Feed::from_xml: a start event enters the arm for its name.
FromXmlCallAtomText ==
  /\ pc = "from_xml"
  /\ \E ev \in Yieldable :
       ev.k = "Start" /\ ev.n \in TextTags \cup OptTextTags /\ Deliver(ev)

FromXmlCallBuilder ==
  /\ pc = "from_xml"
  /\ \E ev \in Yieldable : ev.k = "Start" /\ ev.n \in ChildTags /\ Deliver(ev)

FromXmlCallReadToEnd ==
  /\ pc = "from_xml"
  /\ \E ev \in Yieldable : ev.k = "Start" /\ ev.n \notin FeedTags /\ Deliver(ev)

FromXmlEnd ==
  /\ pc = "from_xml"
  /\ \E ev \in Yieldable : ev.k = "End" /\ Deliver(ev)

FromXmlEof ==
  /\ pc = "from_xml"
  /\ \E ev \in Yieldable : ev.k = "Eof" /\ Deliver(ev)

FromXmlIgnore ==
  /\ pc = "from_xml"
  /\ \E ev \in Yieldable : ev.k \in {"Text", "Other"} /\ Deliver(ev)

FromXmlError ==
  /\ pc = "from_xml"
  /\ \E ev \in Yieldable : ev.k = "Err" /\ Deliver(ev)

\* The callee of an arm: an event inside its element, the end of its
\* element (the arm stores the value and the Feed loop goes on), a failure.
Closing(ev) == ev.k = "End" /\ depth = 0

AtomTextInner ==
  /\ pc = "atom_text"
  /\ \E ev \in Yieldable :
       ev.k \notin {"Eof", "Err"} /\ ~Closing(ev) /\ Deliver(ev)

AtomTextReturn ==
  /\ pc = "atom_text"
  /\ \E ev \in Yieldable : Closing(ev) /\ Deliver(ev)

AtomTextFail ==
  /\ pc = "atom_text"
  /\ \E ev \in Yieldable : ev.k \in {"Eof", "Err"} /\ Deliver(ev)

BuilderInner ==
  /\ pc \in Builders
  /\ \E ev \in Yieldable :
       ev.k \notin {"Eof", "Err"} /\ ~Closing(ev) /\ Deliver(ev)

BuilderReturn ==
  /\ pc \in Builders
  /\ \E ev \in Yieldable : Closing(ev) /\ Deliver(ev)

BuilderFail ==
  /\ pc \in Builders
  /\ \E ev \in Yieldable : ev.k \in {"Eof", "Err"} /\ Deliver(ev)

\* read_to_end returns on the end of the skipped name only.
ClosingSkipped(ev) == Closing(ev) /\ ev.n = arm

ReadToEndInner ==
  /\ pc = "read_to_end"
  /\ \E ev \in Yieldable :
       ev.k \notin {"Eof", "Err"} /\ ~ClosingSkipped(ev) /\ Deliver(ev)

ReadToEndReturn ==
  /\ pc = "read_to_end"
  /\ \E ev \in Yieldable : ClosingSkipped(ev) /\ Deliver(ev)

ReadToEndFail ==
  /\ pc = "read_to_end"
  /\ \E ev \in Yieldable : ev.k \in {"Eof", "Err"} /\ Deliver(ev)

Next ==
  \/ ReadFromStart
  \/ ReadFromEof
  \/ ReadFromIgnore
  \/ ReadFromError
  \/ FromXmlCallAtomText
  \/ FromXmlCallBuilder
  \/ FromXmlCallReadToEnd
  \/ FromXmlEnd
  \/ FromXmlEof
  \/ FromXmlIgnore
  \/ FromXmlError
  \/ AtomTextInner
  \/ AtomTextReturn
  \/ AtomTextFail
  \/ BuilderInner
  \/ BuilderReturn
  \/ BuilderFail
  \/ ReadToEndInner
  \/ ReadToEndReturn
  \/ ReadToEndFail

Spec == Init /\ [][Next]_vars

\* ================================================= the document, as a tree
\* The claims speak of the document the cursor delivered; these read doc
\* as nested elements, independently of the loops above.
Min(S) == CHOOSE m \in S : \A x \in S : m <= x
Max(S) == CHOOSE m \in S : \A x \in S : x <= m

RECURSIVE Asc(_)
Asc(S) == IF S = {} THEN <<>> ELSE <<Min(S)>> \o Asc(S \ {Min(S)})

\* Elements open just before event i of q.
DepthBefore(q, i) ==
  Cardinality({j \in 1..(i - 1) : q[j].k = "Start"})
  - Cardinality({j \in 1..(i - 1) : q[j].k = "End"})

Starts(q) == {i \in 1..Len(q) : q[i].k = "Start"}
\* The first element start, 0 when there is none.
RootPos(q) == IF Starts(q) = {} THEN 0 ELSE Min(Starts(q))
RootIsFeed(q) == RootPos(q) /= 0 /\ q[RootPos(q)].n = RootTag

\* The end event matching the start at i, 0 when q stops before it.
Closers(q, i) ==
  {j \in (i + 1)..Len(q) :
     q[j].k = "End" /\ DepthBefore(q, j) = DepthBefore(q, i) + 1}
CloseOf(q, i) == IF Closers(q, i) = {} THEN 0 ELSE Min(Closers(q, i))
\* The events strictly inside the element started at i.
Inside(q, i) ==
  IF CloseOf(q, i) = 0 THEN (i + 1)..Len(q) ELSE (i + 1)..(CloseOf(q, i) - 1)

\* Direct children of the root, and those named t.
Children(q) ==
  IF RootPos(q) = 0 THEN {}
  ELSE {i \in Inside(q, RootPos(q)) :
          q[i].k = "Start" /\ DepthBefore(q, i) = 1}
ChildrenNamed(q, t) == {i \in Children(q) : q[i].n = t}
\* Starts named t below a child of the root.
Deeper(q, t) ==
  {i \in Starts(q) : q[i].n = t /\ DepthBefore(q, i) >= 2}

\* The text directly inside the element at i, and all text below it.
DirectText(q, i) ==
  LET at == Asc({j \in Inside(q, i) :
                   q[j].k = "Text" /\ DepthBefore(q, j) = DepthBefore(q, i) + 1})
  IN [x \in 1..Len(at) |-> q[at[x]].n]
AllText(q, i) ==
  LET at == Asc({j \in Inside(q, i) : q[j].k = "Text"})
  IN [x \in 1..Len(at) |-> q[at[x]].n]

KindOf(t) ==
  CASE t \in {"author", "contributor"} -> "Person"
    [] t = "category" -> "Category"
    [] t = "link" -> "Link"
    [] t = "entry" -> "Entry"
    [] t = "generator" -> "Generator"
    [] OTHER -> ""
BuiltFrom(q, i) == Entity(KindOf(q[i].n), AllText(q, i))

\* The Feed field a tag names.
Field(f, t) ==
  CASE t = "id" -> f.id
    [] t = "title" -> f.title
    [] t = "updated" -> f.updated
    [] t = "author" -> f.authors
    [] t = "category" -> f.categories
    [] t = "contributor" -> f.contributors
    [] t = "generator" -> f.generator
    [] t = "icon" -> f.icon
    [] t = "link" -> f.links
    [] t = "logo" -> f.logo
    [] t = "rights" -> f.rights
    [] t = "subtitle" -> f.subtitle
    [] t = "entry" -> f.entries

Done == pc = "done"
IsOk == result.ok /= <<>>
IsErr(e) == result = Err(e)
EndsWith(k) == doc /= <<>> /\ Last(doc).k = k

\* ================================================================= claims

\* C1: truncation.  Whenever end of input arrives after a <feed> root has
\* started and before that root is closed, read_from fails with Error::Eof.
C1_TruncationIsEof ==
  (Done /\ EndsWith("Eof") /\ RootIsFeed(doc)) => IsErr(ErrEof)

\* C2: root validation.  A first element start named anything but `feed`
\* makes read_from fail with InvalidStartTag at that very event, with no
\* further event pulled and no Feed under construction; InvalidStartTag is
\* the result in no other case.
C2_RootValidation ==
  /\ (RootPos(doc) /= 0 /\ ~RootIsFeed(doc)) =>
       /\ Done
       /\ IsErr(ErrInvalidStartTag)
       /\ Len(doc) = RootPos(doc)
       /\ feed = <<>>
  /\ IsErr(ErrInvalidStartTag) => (RootPos(doc) /= 0 /\ ~RootIsFeed(doc))

C2_Witness ==
  /\ IsErr(ErrInvalidStartTag)
  /\ Len(doc) >= 2
  /\ Last(doc).n = "Feed"

\* C7: error propagation.  An error raised by the cursor or by a nested
\* resolver is the result of read_from, unchanged; no Feed is returned with
\* it, and the failing event is the last one pulled.
C7_ErrorPropagation ==
  /\ raised /= <<>> => (Done /\ result.err = raised /\ result.ok = <<>>)
  /\ result.err /= <<>> => result.err = raised
  /\ EndsWith("Err") => IsErr(ErrXml(Last(doc).n))
  /\ \A i \in 1..(Len(doc) - 1) : doc[i].k \notin {"Err", "Eof"}

C7_Witness ==
  /\ EndsWith("Err")
  /\ arm /= ""
  /\ feed /= <<>> /\ feed /= <<FeedDefault>>
  /\ IsErr(ErrXml("Syntax"))

\* C8: no root.  While no element start has been seen every event is
\* ignored, and end of input then makes read_from fail with Error::Eof.
C8_NoRootIsEof ==
  RootPos(doc) = 0 =>
    /\ EndsWith("Eof") => (Done /\ IsErr(ErrEof))
    /\ (doc = <<>> \/ EndsWith("Text") \/ EndsWith("Other")) =>
         (pc = "read_from" /\ result = Pending /\ feed = <<>>)

C8_Witness ==
  /\ RootPos(doc) = 0
  /\ Len(doc) >= 2
  /\ IsErr(ErrEof)

\* What the last direct child named t resolves to.
LastNamed(q, t) == Max(ChildrenNamed(q, t))
Resolved(q, t) ==
  CASE t \in TextTags -> DirectText(q, LastNamed(q, t))
    [] t \in OptTextTags -> Some(DirectText(q, LastNamed(q, t)))
    [] t = "generator" -> Some(BuiltFrom(q, LastNamed(q, t)))

SingularTags == TextTags \cup OptTextTags \cup {"generator"}

\* C3: last occurrence wins.  After a successful parse every singular
\* field whose tag occurs among the root's direct children holds the value
\* resolved from the last such child, whatever lies between the occurrences.
C3_LastOccurrenceWins ==
  IsOk =>
    \A t \in SingularTags :
      ChildrenNamed(doc, t) /= {} =>
        Field(result.ok[1], t) = Resolved(doc, t)

\* Two occurrences resolving to different values, another child between.
C3_Witness ==
  /\ IsOk
  /\ \E t \in SingularTags :
       \E i, j \in ChildrenNamed(doc, t) :
         /\ i < j
         /\ DirectText(doc, i) /= DirectText(doc, j)
         /\ \E x \in Children(doc) : i < x /\ x < j /\ doc[x].n /= t

\* C4: sequence fields.  After a successful parse each of authors,
\* categories, contributors, links and entries holds exactly the entities
\* built from the root's direct children of its tag, in document order.
InOrder(q, t) ==
  LET at == Asc(ChildrenNamed(q, t))
  IN [x \in 1..Len(at) |-> BuiltFrom(q, at[x])]

C4_SequencesInDocumentOrder ==
  IsOk =>
    \A t \in SeqTags : Field(result.ok[1], t) = InOrder(doc, t)

\* Two different entities of one tag, a child of another sequence tag
\* between them.
C4_Witness ==
  /\ IsOk
  /\ \E t \in SeqTags :
       LET xs == Field(result.ok[1], t) IN
       /\ Len(xs) = 2
       /\ xs[1] /= xs[2]
       /\ \E u \in SeqTags \ {t} : Len(Field(result.ok[1], u)) = 1
       /\ \E x \in Children(doc) :
            /\ doc[x].n \in SeqTags \ {t}
            /\ Min(ChildrenNamed(doc, t)) < x
            /\ x < Max(ChildrenNamed(doc, t))

\* The parse of an event sequence, from the entry point on.
RECURSIVE RunFrom(_, _, _)
RunFrom(s, q, i) ==
  IF i > Len(q) \/ s.pc = "done" THEN s
  ELSE RunFrom(Step(s, q[i]), q, i + 1)
Run(q) == RunFrom(InitParser, q, 1)

\* q without the element started at i.
Without(q, i) ==
  SubSeq(q, 1, i - 1) \o SubSeq(q, CloseOf(q, i) + 1, Len(q))

Unrecognized(q) == {i \in Children(q) : q[i].n \notin FeedTags}

\* C5: unrecognized elements are skipped.  After a successful parse, the
\* document without any one of its unrecognized children of the root parses
\* successfully to the same Feed.
C5_UnrecognizedSkipped ==
  IsOk =>
    \A i \in Unrecognized(doc) : Run(Without(doc, i)).result = result

\* An unrecognized child holding an element of its own name or of a
\* recognized name, with a recognized child after it that set a field.
C5_Witness ==
  /\ IsOk
  /\ result.ok[1] /= FeedDefault
  /\ \E i \in Unrecognized(doc) :
       /\ \E j \in Inside(doc, i) :
            doc[j].k = "Start" /\ doc[j].n \in FeedTags \cup {doc[i].n}
       /\ \E x \in Children(doc) : x > i /\ doc[x].n \in FeedTags

C9_OnlyDirectChildrenWrite ==
  IsOk =>
    \A t \in OptTextTags \cup ChildTags :
      ChildrenNamed(doc, t) = {} => Field(result.ok[1], t) = <<>>

\* The tag occurs inside an entry only, with text of its own.
C9_Witness ==
  /\ IsOk
  /\ \E t \in OptTextTags \cup (ChildTags \ {"entry"}) :
       /\ ChildrenNamed(doc, t) = {}
       /\ \E i \in Deeper(doc, t) :
            /\ \E e \in ChildrenNamed(doc, "entry") : i \in Inside(doc, e)
            /\ DirectText(doc, i) /= <<>>
       /\ Field(result.ok[1], t) = <<>>

\* C10: the Feed builder stops on its own end.  Its loop runs only while
\* the root is the innermost open element, and a successful parse has
\* pulled exactly the events up to the end matching the root's start.
C10_StopsOnOwnEnd ==
  /\ pc = "from_xml" => open = <<RootTag>>
  /\ IsOk =>
       /\ open = <<>>
       /\ Last(doc) = Ev("End", RootTag)
       /\ CloseOf(doc, RootPos(doc)) = Len(doc)

\* A child with a descendant, then a sibling that was processed.
C10_Witness ==
  /\ IsOk
  /\ \E i, x \in Children(doc) :
       /\ i < x
       /\ \E j \in Inside(doc, i) : doc[j].k = "Start"
       /\ doc[x].n \in SeqTags
       /\ Field(result.ok[1], doc[x].n) /= <<>>

====
